---------------------------- MODULE Spec2Model ----------------------------
(***************************************************************************)
(* Two-sided orthogonal Procrustes with a single transformation.           *)
(*                                                                         *)
(* A model of TwoSidedOrthogonalSingleTransformationProcrustes             *)
(* (procrustes_two_sided_orthogonal_single_transformation.py) and of the   *)
(* helpers of procrustes.base_utils that test_base.py exercises.           *)
(*                                                                         *)
(* Numbers.  Every real quantity is an exact integer; one model unit       *)
(* stands for 1e3.  Matrices are tuples of rows.  The entries of the input *)
(* arrays are multiples of GridUnit units; orthogonal matrices have the    *)
(* entries -1, 0, 1.  A Frobenius norm is kept as its square (the order of *)
(* non-negative reals is the order of their squares), so "error" in the    *)
(* model is error^2 of the code, in squared units.  A tolerance t below    *)
(* one unit is kept as the integer that decides the comparison on          *)
(* integers: x > t iff x > 0 (its floor), x^2 < t^2 iff x^2 < 1 (the       *)
(* ceiling of its square).                                                 *)
(***************************************************************************)
EXTENDS Integers, Sequences, FiniteSets, TLC

--------------------------------------------------------------------------
(* Bounds of the model *)

\* input entries are v * GridUnit for v in -MaxVal .. MaxVal
MaxVal == 2
\* the grid of the input entries, in units (25 units = 2.5e4)
GridUnit == 25
\* the non-default tolerance a caller may pass to calculate, in units
TolLoose == 40

\* the first entry of a caller's array of the padding routines is 0..MaxOffset
MaxOffset == 1

\* a caller appends 0..MaxPad all-zero rows and 0..MaxPad all-zero columns
MaxPad == 2

(* Program constants *)

\* error_best = 1.e5, in units
Sentinel == 100
\* (abs(A - A.T) > 1.e-10): floor of the tolerance, in units
SymTolFloor == 0
\* u_approx[abs(u_approx) < 1.e-8] = 0: ceiling of the tolerance
SnapTolCeil == 1
\* tol=1.e-12: ceiling of the square of the default tolerance
TolDefaultSq == 1

\* Python's None is the empty tuple and a value x that may be None is the
\* tuple <<x>>
None == <<>>

Some(x) == <<x>>

Val(o) == o[1]

--------------------------------------------------------------------------
(* numpy arrays: tuples of rows, every row of the same length >= 1 *)

Abs(x) == IF x < 0 THEN -x ELSE x

Rows(M) == Len(M)

Cols(M) == Len(M[1])

Shape(M) == <<Rows(M), Cols(M)>>

RECURSIVE SumTo(_, _)
\* f[1] + ... + f[m]
SumTo(f, m) == IF m = 0 THEN 0 ELSE f[m] + SumTo(f, m - 1)

RECURSIVE Tuple(_, _)
\* the tuple <<f[1], ..., f[m]>>
Tuple(f, m) == IF m = 0 THEN <<>> ELSE Append(Tuple(f, m - 1), f[m])

\* the array of r rows and c columns with the entries F(i, j)
Array(r, c, F(_, _)) ==
    Tuple([i \in 1..r |-> Tuple([j \in 1..c |-> F(i, j)], c)], r)

\* M.T
Transpose(M) == Array(Cols(M), Rows(M), LAMBDA j, i : M[i][j])

\* np.dot(X, Y)
Dot(X, Y) ==
    Array(Rows(X), Cols(Y),
          LAMBDA i, j : SumTo([k \in 1..Cols(X) |-> X[i][k] * Y[k][j]], Cols(X)))

\* X - Y for arrays of one shape
Minus(X, Y) == Array(Rows(X), Cols(X), LAMBDA i, j : X[i][j] - Y[i][j])

\* np.diag(v) for a vector v
Diag(v) == Array(Len(v), Len(v), LAMBDA i, j : IF i = j THEN v[i] ELSE 0)

\* the square of the Frobenius norm of M
FrobeniusSq(M) ==
    SumTo([i \in 1..Rows(M) |->
              SumTo([j \in 1..Cols(M) |-> M[i][j] * M[i][j]], Cols(M))],
          Rows(M))

\* (abs(M) > tol).all() for integer M and floor(tol) = tolFloor
AllAbsExceed(M, tolFloor) ==
    \A i \in 1..Rows(M) : \A j \in 1..Cols(M) : Abs(M[i][j]) > tolFloor

\* (abs(M) > tol).any()
AnyAbsExceeds(M, tolFloor) ==
    \E i \in 1..Rows(M) : \E j \in 1..Cols(M) : Abs(M[i][j]) > tolFloor

--------------------------------------------------------------------------
(* The bounded families the inputs and the library results are drawn from *)

\* the dimensions n of the n x n arrays handed to the solver
Dims == {1, 2}

\* the values of the input entries, in units
Vals == {v * GridUnit : v \in (-MaxVal)..MaxVal}

\* the bijections of 1..n
Perms(m) == {p \in [1..m -> 1..m] : \A i, j \in 1..m : p[i] = p[j] => i = j}

\* the n x n arrays with at most one non-zero entry, taken from S, in every
\* row and every column: singular value decomposition, products with a
\* signed permutation and Frobenius norms of these are exact in integers
OneEntryArrays(m, S) ==
    {Array(m, m, LAMBDA i, j : IF p[i] = j THEN v[i] ELSE 0) :
        p \in Perms(m), v \in [1..m -> S]}

\* the arrays a caller may hand to the constructor
InputArrays(m) == OneEntryArrays(m, Vals)

\* the permutation matrices: orthogonal, with non-negative entries
PermutationMatrices(m) == OneEntryArrays(m, {1})

\* the tolerances a caller may pass to calculate, as ceilings of squares
Tolerances == {TolDefaultSq, TolLoose * TolLoose}

--------------------------------------------------------------------------
(* procrustes.base_utils *)

\* variant: the zero rows are put before the rows of x
PadRowsLeading(x, rows) ==
    Array(rows, Cols(x),
          LAMBDA i, j : IF i > rows - Rows(x) THEN x[i - (rows - Rows(x))][j] ELSE 0)

\* variant: one zero row more than asked for
PadRowsOneMore(x, rows) ==
    Array(rows + 1, Cols(x), LAMBDA i, j : IF i <= Rows(x) THEN x[i][j] ELSE 0)

\* row i of an array of `cols` columns, followed by zero rows up to `rows`
PadRows(x, rows) ==
    Array(rows, Cols(x), LAMBDA i, j : IF i <= Rows(x) THEN x[i][j] ELSE 0)

\* every row followed by zeros up to `cols` columns
PadCols(x, cols) ==
    Array(Rows(x), cols, LAMBDA i, j : IF j <= Cols(x) THEN x[i][j] ELSE 0)

Max(a, b) == IF a >= b THEN a ELSE b

\* variant: with square=True each array is made square on its own
zero_padding_square_each(x, y, row, column, square) ==
    LET dx == Max(Rows(x), Cols(x))
        dy == Max(Rows(y), Cols(y))
        x1 == IF square THEN PadCols(PadRows(x, dx), dx) ELSE x
        y1 == IF square THEN PadCols(PadRows(y, dy), dy) ELSE y
        r  == Max(Rows(x1), Rows(y1))
        x2 == IF row THEN PadRows(x1, r) ELSE x1
        y2 == IF row THEN PadRows(y1, r) ELSE y1
        c  == Max(Cols(x2), Cols(y2))
        x3 == IF column THEN PadCols(x2, c) ELSE x2
        y3 == IF column THEN PadCols(y2, c) ELSE y2
    IN  <<x3, y3>>

\* zero_padding(x, y, row, column, square): the pair of padded arrays
zero_padding(x, y, row, column, square) ==
    LET dim == Max(Max(Rows(x), Cols(x)), Max(Rows(y), Cols(y)))
        x1 == IF square THEN PadCols(PadRows(x, dim), dim) ELSE x
        y1 == IF square THEN PadCols(PadRows(y, dim), dim) ELSE y
        r  == Max(Rows(x1), Rows(y1))
        x2 == IF row THEN PadRows(x1, r) ELSE x1
        y2 == IF row THEN PadRows(y1, r) ELSE y1
        c  == Max(Cols(x2), Cols(y2))
        x3 == IF column THEN PadCols(x2, c) ELSE x2
        y3 == IF column THEN PadCols(y2, c) ELSE y2
    IN  <<x3, y3>>

\* the largest element of a finite set of naturals, 0 for the empty set
MaxOf(S) == IF S = {} THEN 0 ELSE CHOOSE m \in S : \A k \in S : k <= m

\* the last row of x that has a non-zero entry, 0 if there is none
LastNonZeroRow(x) ==
    MaxOf({r \in 1..Rows(x) : \E c \in 1..Cols(x) : x[r][c] # 0})

\* the last column of x that has a non-zero entry, 0 if there is none
LastNonZeroCol(x) ==
    MaxOf({c \in 1..Cols(x) : \E r \in 1..Rows(x) : x[r][c] # 0})

\* variant: only the trailing zero rows are removed
hide_zero_rows_only(x) ==
    Array(LastNonZeroRow(x), Cols(x), LAMBDA r, c : x[r][c])

\* hide_zero_padding_array(x): x without its trailing all-zero rows and
\* its trailing all-zero columns
hide_zero_padding_array(x) ==
    Array(LastNonZeroRow(x), LastNonZeroCol(x), LAMBDA r, c : x[r][c])

\* the number of non-zero entries of M
NonZeroCount(M) ==
    Cardinality({ij \in (1..Rows(M)) \X (1..Cols(M)) : M[ij[1]][ij[2]] # 0})

\* is_diagonalizable(M): M has a full set of n independent eigenvectors.
\* For an array with at most one non-zero entry per row and column the rank
\* is the number of non-zero entries, and M has a full eigenbasis exactly
\* when it has no nilpotent part, that is when rank(M.M) = rank(M).
is_diagonalizable(M) == NonZeroCount(Dot(M, M)) = NonZeroCount(M)

\* the absolute value of the one entry of row i that may be non-zero
RowAbs(M, i) == SumTo([j \in 1..Cols(M) |-> Abs(M[i][j])], Cols(M))

\* the rows of M by decreasing RowAbs, earlier rows first among equals
RowOrder(M) ==
    LET m == Rows(M)
        before(k, i) == RowAbs(M, k) > RowAbs(M, i)
                        \/ (RowAbs(M, k) = RowAbs(M, i) /\ k < i)
        pos(i) == 1 + Cardinality({k \in 1..m : before(k, i)})
    IN  Tuple([j \in 1..m |-> CHOOSE i \in 1..m : pos(i) = j], m)

\* the column paired with each row: the column of its non-zero entry, and
\* for the zero rows the columns that hold no entry, in increasing order
ColOfRow(M) ==
    LET m == Rows(M)
        zeroRows == {i \in 1..m : RowAbs(M, i) = 0}
        freeCols == {j \in 1..m : \A i \in 1..m : M[i][j] = 0}
        nth(S, k) == CHOOSE x \in S : Cardinality({y \in S : y < x}) = k - 1
        rank(i) == 1 + Cardinality({k \in zeroRows : k < i})
    IN  Tuple([i \in 1..m |->
                  IF i \in zeroRows THEN nth(freeCols, rank(i))
                  ELSE CHOOSE j \in 1..m : M[i][j] # 0], m)

\* singular_value_decomposition(M) = (u, sigma, v_trans) with u and v_trans
\* orthogonal, sigma non-negative and descending, u.diag(sigma).v_trans = M.
\* The library fixes one such factorization of M; so does the model: the
\* columns of u are unit vectors, the signs are carried by v_trans.
singular_value_decomposition(M) ==
    LET m == Rows(M)
        ord == RowOrder(M)
        col == ColOfRow(M)
        sgn(i) == IF M[i][col[i]] < 0 THEN -1 ELSE 1
    IN  [u       |-> Array(m, m, LAMBDA i, j : IF ord[j] = i THEN 1 ELSE 0),
         sigma   |-> Tuple([j \in 1..m |-> RowAbs(M, ord[j])], m),
         v_trans |-> Array(m, m, LAMBDA j, c :
                        IF col[ord[j]] = c THEN sgn(ord[j]) ELSE 0)]

--------------------------------------------------------------------------
(* procrustes.base.Procrustes *)

\* double_sided_procrustes_error(array_a, array_b, t_left, t_right): the
\* Frobenius norm of array_a.t_right - t_left.array_b, kept as its square
double_sided_procrustes_error(array_a, array_b, t_left, t_right) ==
    FrobeniusSq(Minus(Dot(array_a, t_right), Dot(t_left, array_b)))

--------------------------------------------------------------------------
(* itertools *)

RECURSIVE product(_, _)
\* list(product(vals, repeat=n)): the n-tuples over the tuple vals, the
\* last position varying fastest
product(vals, repeat) ==
    IF repeat = 0 THEN << <<>> >>
    ELSE LET rest == product(vals, repeat - 1)
             m == Len(rest)
         IN  Tuple([k \in 1..(Len(vals) * m) |->
                      <<vals[((k - 1) \div m) + 1]>> \o rest[((k - 1) % m) + 1]],
                   Len(vals) * m)

RECURSIVE Pow2(_)
\* 2**n
Pow2(m) == IF m = 0 THEN 1 ELSE 2 * Pow2(m - 1)

--------------------------------------------------------------------------
(* State *)

VARIABLES
    pc,                       \* position: new, ready, approx, svd, loop, conj, select, failed
    in_a, in_b,               \* the caller's arrays, handed to the constructor
    array_a, array_b,         \* self.array_a, self.array_b
    transformation,           \* self.transformation
    args,                     \* the arguments of the running or last call
    return_u_approx,          \* locals of calculate (FALSE, 0 before a call)
    return_u_best,
    u_approx, error_approx, array_transformed_approx,
    u_best, error_best, array_transformed_best,
    u_a, u_a0, n, diag_vec_list,
    i,                        \* the loop variable of the sign-search
    trials,                   \* history: the trials evaluated by this call, in order
    search,                   \* history: u_best, error_best when the loop was left
    lib_u_approx,             \* the one-sided solver's answer for (array_a, array_b)
    calls,                    \* the number of finished calls of calculate
    outcome,                  \* what the last finished call returned or raised
    first,                    \* history: the outcome of the first call
    array1, array2,           \* the arrays of a caller of the padding routines
    pad_args,                 \* the options of the finished zero_padding call
    padded_arrays,            \* the pair of arrays zero_padding returned
    procrust,                 \* array_a, array_b of the base Procrustes object
    repadded,                 \* the pair zero_padding returned for padded_arrays
    hidden                    \* a padded array1 and what hide_zero_padding_array gave

vars == <<pc, in_a, in_b, array_a, array_b, transformation, args,
          return_u_approx, return_u_best, u_approx, error_approx,
          array_transformed_approx, u_best, error_best, array_transformed_best,
          u_a, u_a0, n, diag_vec_list, i, trials, search, lib_u_approx, calls,
          outcome, first, array1, array2, pad_args, padded_arrays, procrust,
          repadded, hidden>>

approx_vars == <<u_approx, error_approx, array_transformed_approx, lib_u_approx>>

best_vars == <<u_best, error_best, array_transformed_best,
               u_a, u_a0, n, diag_vec_list, i, trials, search>>

call_vars == <<args, return_u_approx, return_u_best, calls, outcome, first>>

pad_vars == <<array1, array2, pad_args, padded_arrays, procrust, repadded, hidden>>

\* the leading k rows of M
FirstRows(M, k) == SubSeq(M, 1, k)

\* the pairs of arrays a caller constructs the solver with: A is n x n, B
\* has n columns and at most n rows
InputPairs ==
    UNION {InputArrays(m) \X {FirstRows(B, k) : B \in InputArrays(m), k \in 1..m} :
              m \in Dims}

\* no solver has computed anything
NothingComputed ==
    /\ array_a = None /\ array_b = None /\ transformation = None
    /\ args = None /\ return_u_approx = FALSE /\ return_u_best = FALSE
    /\ u_approx = None /\ error_approx = None /\ array_transformed_approx = None
    /\ u_best = None /\ error_best = None /\ array_transformed_best = None
    /\ u_a = None /\ u_a0 = None /\ n = 0 /\ diag_vec_list = <<>>
    /\ i = 0 /\ trials = <<>> /\ search = None
    /\ lib_u_approx = None /\ calls = 0 /\ outcome = None /\ first = None

\* no padding routine has been called
NothingPadded ==
    /\ pad_args = None /\ padded_arrays = None /\ procrust = None
    /\ repadded = None /\ hidden = None

Init ==
    /\ pc = "new"
    /\ \E pair \in InputPairs : in_a = pair[1] /\ in_b = pair[2]
    /\ NothingComputed
    /\ array1 = <<>> /\ array2 = <<>> /\ NothingPadded

--------------------------------------------------------------------------
(* Construction *)

\* Procrustes.__init__ with the default options (translate=False,
\* scale=False): the arrays are brought to an equal number of rows
ProcrustesInit(a, b) == zero_padding(a, b, TRUE, FALSE, FALSE)

\* the test of __init__ that raises ValueError
NotSymmetric(a, b) ==
    \/ AllAbsExceed(Minus(a, Transpose(a)), SymTolFloor)
    \/ AllAbsExceed(Minus(b, Transpose(b)), SymTolFloor)

\* TwoSidedOrthogonalSingleTransformationProcrustes(array_a, array_b)
Construct ==
    /\ UNCHANGED pad_vars
    /\ pc = "new"
    /\ LET padded == ProcrustesInit(in_a, in_b)
       IN  /\ array_a' = Some(padded[1])
           /\ array_b' = Some(padded[2])
           /\ pc' = IF NotSymmetric(padded[1], padded[2]) THEN "failed" ELSE "ready"
    /\ UNCHANGED <<in_a, in_b, transformation>>
    /\ UNCHANGED <<approx_vars, best_vars, call_vars>>

--------------------------------------------------------------------------
(* calculate(return_u_approx, return_u_best, tol) *)

\* variant: calculate reads array_a as the last map_a_b would have left it,
\* had map_a_b stored the mapped array back into self.array_a
array_a_after_map ==
    IF transformation = None
    THEN Val(array_a)
    ELSE Dot(Dot(Val(transformation).t, Val(array_a)), Val(transformation).s)

\* array_a = self.array_a
local_array_a == Val(array_a)

\* array_b = self.array_b
local_array_b == Val(array_b)

\* variant: the diagonalizability test does not clear the flag
approx_as_requested(requested, a, b) == requested

\* return_u_approx after the diagonalizability test that opens calculate
approx_enabled(requested, a, b) ==
    IF is_diagonalizable(a) = FALSE \/ is_diagonalizable(b) = FALSE
    THEN FALSE
    ELSE requested

\* variant: the sign-search runs whether requested or not
after_opening_always_search(approx, best) ==
    IF approx THEN "approx" ELSE "svd"

\* where calculate goes after its opening and after the approximation
after_opening(approx, best) ==
    IF approx THEN "approx" ELSE IF best THEN "svd" ELSE "select"

\* the opening of calculate, called with the arguments `given`
Opening(given) ==
    /\ UNCHANGED pad_vars
    /\ pc = "ready"
    /\ LET approx == approx_enabled(given.return_u_approx,
                                    local_array_a, local_array_b)
       IN  /\ args' = Some(given)
           /\ return_u_approx' = approx
           /\ return_u_best' = given.return_u_best
           /\ pc' = after_opening(approx, given.return_u_best)
    /\ error_approx' = None /\ u_approx' = None
    /\ u_best' = None /\ error_best' = None
    /\ array_transformed_approx' = None /\ array_transformed_best' = None
    /\ u_a' = None /\ u_a0' = None /\ n' = 0 /\ diag_vec_list' = <<>>
    /\ i' = 0 /\ trials' = <<>> /\ search' = None
    /\ UNCHANGED <<in_a, in_b, array_a, array_b, transformation,
                   lib_u_approx, calls, outcome, first>>

\* the caller invokes calculate on the new solver object
Calculate ==
    /\ calls = 0
    /\ \E ra \in BOOLEAN, rb \in BOOLEAN, t \in Tolerances :
        Opening([return_u_approx |-> ra, return_u_best |-> rb, tol |-> t])

\* the caller invokes calculate once more on the same solver object, with
\* the arguments of the first call
Recalculate ==
    /\ calls = 1
    /\ Opening(Val(args))

\* u_approx[abs(u_approx) < 1.e-8] = 0
snap_to_zero(u) ==
    Array(Rows(u), Cols(u),
          LAMBDA r, c : IF Abs(u[r][c]) < SnapTolCeil THEN 0 ELSE u[r][c])

\* the answers OrthogonalProcrustes(eye(n), u_umeyama).calculate() may give:
\* the orthogonal matrix nearest to the non-negative array u_umeyama, which
\* for the arrays of the model is a permutation matrix; the library gives
\* the same answer whenever it is asked again for the same arrays
orthogonal_procrustes(m) ==
    IF lib_u_approx = None THEN PermutationMatrices(m) ELSE {Val(lib_u_approx)}

\* if return_u_approx: the Umeyama approximation
Approximate ==
    /\ UNCHANGED pad_vars
    /\ pc = "approx"
    /\ \E u \in orthogonal_procrustes(Rows(local_array_a)) :
        LET snapped == snap_to_zero(u)
        IN  /\ lib_u_approx' = Some(u)
            /\ u_approx' = Some(snapped)
            /\ error_approx' = Some(double_sided_procrustes_error(
                                  local_array_a, local_array_b, snapped, snapped))
            /\ array_transformed_approx' = Some(Dot(local_array_a, snapped))
    /\ pc' = after_opening(FALSE, return_u_best)
    /\ UNCHANGED <<in_a, in_b, array_a, array_b, transformation>>
    /\ UNCHANGED <<best_vars, call_vars>>

\* if return_u_best: the decompositions, the sign patterns and the
\* initial selection state
SearchInit ==
    /\ UNCHANGED pad_vars
    /\ pc = "svd"
    /\ LET svd_a == singular_value_decomposition(local_array_a)
           svd_a0 == singular_value_decomposition(local_array_b)
       IN  /\ u_a' = Some(svd_a.u)
           /\ u_a0' = Some(svd_a0.u)
           /\ n' = Len(svd_a.sigma)
           /\ diag_vec_list' = product(<<-1, 1>>, Len(svd_a.sigma))
           /\ error_best' = Some(Sentinel * Sentinel)
           /\ u_best' = Some(svd_a.u)
    /\ i' = 0
    /\ pc' = "loop"
    /\ UNCHANGED <<array_transformed_best, trials, search>>
    /\ UNCHANGED <<in_a, in_b, array_a, array_b, transformation>>
    /\ UNCHANGED <<approx_vars, call_vars>>

\* u_trial = np.dot(np.dot(u_a, np.diag(diag_vec_list[i])), u_a0.T)
trial_matrix(k) ==
    Dot(Dot(Val(u_a), Diag(diag_vec_list[k + 1])), Transpose(Val(u_a0)))

\* variant: a trial that ties the best error replaces it
search_step_last_minimum(best_u, best_error, u_trial, error, tol) ==
    IF error < tol
    THEN [u_best |-> u_trial, error_best |-> error, stop |-> TRUE]
    ELSE IF error <= best_error
         THEN [u_best |-> u_trial, error_best |-> error, stop |-> FALSE]
         ELSE [u_best |-> best_u, error_best |-> best_error, stop |-> FALSE]

\* variant: the loop is left at the first trial that improves
search_step_stop_on_improvement(best_u, best_error, u_trial, error, tol) ==
    IF error < tol \/ error < best_error
    THEN [u_best |-> u_trial, error_best |-> error, stop |-> TRUE]
    ELSE [u_best |-> best_u, error_best |-> best_error, stop |-> FALSE]

\* variant: every trial replaces the selection
search_step_keep_latest(best_u, best_error, u_trial, error, tol) ==
    [u_best |-> u_trial, error_best |-> error, stop |-> error < tol]

\* variant: a trial replaces the selection when it is worse
search_step_accept_worse(best_u, best_error, u_trial, error, tol) ==
    IF error < tol
    THEN [u_best |-> u_trial, error_best |-> error, stop |-> TRUE]
    ELSE IF error > best_error
         THEN [u_best |-> u_trial, error_best |-> error, stop |-> FALSE]
         ELSE [u_best |-> best_u, error_best |-> best_error, stop |-> FALSE]

\* the body of the loop after the error is known: the new selection state,
\* and whether the loop is left by break
search_step(best_u, best_error, u_trial, error, tol) ==
    IF error < tol
    THEN [u_best |-> u_trial, error_best |-> error, stop |-> TRUE]
    ELSE IF error < best_error
         THEN [u_best |-> u_trial, error_best |-> error, stop |-> FALSE]
         ELSE [u_best |-> best_u, error_best |-> best_error, stop |-> FALSE]

\* one iteration of "for i in range(2**n)"
Trial ==
    /\ UNCHANGED pad_vars
    /\ pc = "loop"
    /\ i < Pow2(n)
    /\ LET u_trial == trial_matrix(i)
           error == double_sided_procrustes_error(local_array_a, local_array_b,
                                                  u_trial, u_trial)
           step == search_step(Val(u_best), Val(error_best), u_trial, error,
                               Val(args).tol)
       IN  /\ u_best' = Some(step.u_best)
           /\ error_best' = Some(step.error_best)
           /\ trials' = Append(trials, [k |-> i, error |-> error])
           /\ IF step.stop \/ i + 1 = Pow2(n)
              THEN pc' = "conj" /\ i' = i
              ELSE pc' = "loop" /\ i' = i + 1
    /\ UNCHANGED <<array_transformed_best, search, u_a, u_a0, n, diag_vec_list>>
    /\ UNCHANGED <<in_a, in_b, array_a, array_b, transformation>>
    /\ UNCHANGED <<approx_vars, call_vars>>

\* array_transformed_best = np.dot(np.dot(u_best.T, array_a), u_best)
Conjugate ==
    /\ UNCHANGED pad_vars
    /\ pc = "conj"
    /\ array_transformed_best' =
           Some(Dot(Dot(Transpose(Val(u_best)), local_array_a), Val(u_best)))
    /\ search' = Some([u |-> Val(u_best), error |-> Val(error_best)])
    /\ pc' = "select"
    /\ UNCHANGED <<u_best, error_best, u_a, u_a0, n, diag_vec_list, i, trials>>
    /\ UNCHANGED <<in_a, in_b, array_a, array_b, transformation>>
    /\ UNCHANGED <<approx_vars, call_vars>>

\* variant: a tie goes to the approximation
select_best_tie_to_approx(approx_u, approx_error, best_u, best_error) ==
    IF approx_error > best_error
    THEN [u |-> best_u, error |-> best_error]
    ELSE [u |-> approx_u, error |-> approx_error]

\* the choice between the two candidates when both were computed
select_best(approx_u, approx_error, best_u, best_error) ==
    IF approx_error >= best_error
    THEN [u |-> best_u, error |-> best_error]
    ELSE [u |-> approx_u, error |-> approx_error]

\* self.map_a_b(t, s, ...): the transformation it leaves in
\* self.transformation (no translation or scaling is in force)
map_a_b(t, s) == [t |-> t, s |-> s]

\* variant: the closing has no branch for the sign-search alone
closing_without_best_branch(approx, best) ==
    IF approx /\ best
    THEN LET sel == select_best(Val(u_approx), Val(error_approx),
                                Val(u_best), Val(error_best))
         IN  [raise |-> FALSE, map |-> Some(sel.u),
              u_best |-> Some(sel.u), error_best |-> Some(sel.error)]
    ELSE IF approx
    THEN [raise |-> FALSE, map |-> u_approx,
          u_best |-> u_best, error_best |-> error_best]
    ELSE [raise |-> TRUE, map |-> None,
          u_best |-> u_best, error_best |-> error_best]

\* what the closing if/elif/else of calculate does
closing(approx, best) ==
    IF approx /\ best
    THEN LET sel == select_best(Val(u_approx), Val(error_approx),
                                Val(u_best), Val(error_best))
         IN  [raise |-> FALSE, map |-> Some(sel.u),
              u_best |-> Some(sel.u), error_best |-> Some(sel.error)]
    ELSE IF approx
    THEN [raise |-> FALSE, map |-> u_approx,
          u_best |-> u_best, error_best |-> error_best]
    ELSE IF best
    THEN [raise |-> FALSE, map |-> u_best,
          u_best |-> u_best, error_best |-> error_best]
    ELSE [raise |-> TRUE, map |-> None,
          u_best |-> u_best, error_best |-> error_best]

\* the end of calculate: the selection, map_a_b and the return, or ValueError
Select ==
    /\ UNCHANGED pad_vars
    /\ pc = "select"
    /\ LET c == closing(return_u_approx, return_u_best)
           t == IF c.raise THEN transformation
                ELSE Some(map_a_b(Transpose(Val(c.map)), Val(c.map)))
           result == IF c.raise
                     THEN [kind |-> "ValueError"]
                     ELSE [kind |-> "return",
                           u_approx |-> u_approx,
                           u_best |-> c.u_best,
                           array_transformed_approx |-> array_transformed_approx,
                           array_transformed_best |-> array_transformed_best,
                           error_approx |-> error_approx,
                           error_best |-> c.error_best,
                           transformation |-> t]
       IN  /\ u_best' = c.u_best
           /\ error_best' = c.error_best
           /\ transformation' = t
           /\ outcome' = Some(result)
           /\ first' = IF calls = 0 THEN Some(result) ELSE first
    /\ calls' = calls + 1
    /\ pc' = "ready"
    /\ UNCHANGED <<in_a, in_b, array_a, array_b, args, return_u_approx, return_u_best>>
    /\ UNCHANGED <<approx_vars, array_transformed_best,
                   u_a, u_a0, n, diag_vec_list, i, trials, search>>

Next ==
    \/ Construct
    \/ Calculate
    \/ Approximate
    \/ SearchInit
    \/ Trial
    \/ Conjugate
    \/ Select

Spec == Init /\ [][Next]_vars

NextRerun == Next \/ Recalculate

\* the solver with one re-run of calculate
SpecRerun == Init /\ [][NextRerun]_vars

--------------------------------------------------------------------------
(* The padding routines and the base class, called on their own *)

PadDims == {1, 2, 3}

\* np.arange(start, start + r * c).reshape(r, c)
Arange(start, r, c) == Array(r, c, LAMBDA p, q : start + (p - 1) * c + (q - 1))

\* the arrays a caller hands to the padding routines
CallerArrays == {Arange(start, r, c) : start \in 0..MaxOffset, r \in PadDims, c \in PadDims}

InitPad ==
    /\ pc = "off" /\ in_a = <<>> /\ in_b = <<>>
    /\ NothingComputed
    /\ array1 \in CallerArrays /\ array2 \in CallerArrays
    /\ NothingPadded

solver_vars == <<pc, in_a, in_b, array_a, array_b, transformation,
                 approx_vars, best_vars, call_vars>>

\* padded1, padded2 = zero_padding(array1, array2, row=, column=, square=)
ZeroPadding ==
    /\ padded_arrays = None /\ hidden = None
    /\ \E row \in BOOLEAN, column \in BOOLEAN, square \in BOOLEAN :
          /\ pad_args' = Some([row |-> row, column |-> column, square |-> square])
          /\ padded_arrays' = Some(zero_padding(array1, array2, row, column, square))
    /\ UNCHANGED <<array1, array2, procrust, repadded, hidden>>
    /\ UNCHANGED solver_vars

\* zero_padding called again, on the pair it returned, with the same options
Repad ==
    /\ padded_arrays # None /\ repadded = None
    /\ repadded' = Some(zero_padding(Val(padded_arrays)[1], Val(padded_arrays)[2],
                                     Val(pad_args).row, Val(pad_args).column,
                                     Val(pad_args).square))
    /\ UNCHANGED <<array1, array2, pad_args, padded_arrays, procrust, hidden>>
    /\ UNCHANGED solver_vars

\* procrust = Procrustes(array1, array2)
BaseConstruct ==
    /\ procrust = None /\ hidden = None
    /\ LET p == ProcrustesInit(array1, array2)
       IN  procrust' = Some([array_a |-> p[1], array_b |-> p[2]])
    /\ UNCHANGED <<array1, array2, pad_args, padded_arrays, repadded, hidden>>
    /\ UNCHANGED solver_vars

\* array1 with `rows` zero rows and `cols` zero columns concatenated after it
Concatenated(x, rows, cols) ==
    Array(Rows(x) + rows, Cols(x) + cols,
          LAMBDA r, c : IF r <= Rows(x) /\ c <= Cols(x) THEN x[r][c] ELSE 0)

\* hide_array0 = hide_zero_padding_array(array0) and
\* hide_array1 = hide_zero_padding_array(array1) for a zero-padded array0
HidePadding ==
    /\ hidden = None /\ padded_arrays = None /\ procrust = None
    /\ \E arb_pad_row \in 0..MaxPad, arb_pad_col \in 0..MaxPad :
          LET array_padded == Concatenated(array1, arb_pad_row, arb_pad_col)
          IN  hidden' = Some([arb_pad_row |-> arb_pad_row,
                              arb_pad_col |-> arb_pad_col,
                              array_padded |-> array_padded,
                              hide_array0 |-> hide_zero_padding_array(array1),
                              hide_array1 |-> hide_zero_padding_array(array_padded)])
    /\ UNCHANGED <<array1, array2, pad_args, padded_arrays, procrust, repadded>>
    /\ UNCHANGED solver_vars

NextPad == ZeroPadding \/ Repad \/ BaseConstruct \/ HidePadding

SpecPad == InitPad /\ [][NextPad]_vars

--------------------------------------------------------------------------
(* Properties *)

\* a call of calculate has finished and no other is running
Finished == pc = "ready" /\ calls >= 1

\* the arguments calculate was called with
Given == Val(args)

\* what the finished call returned or raised
Result == Val(outcome)

\* both arrays of the solver pass the diagonalizability test
DiagonalizablePair ==
    is_diagonalizable(Val(array_a)) /\ is_diagonalizable(Val(array_b))

\* (abs(M - M.T) > 1.e-10).any(): M is not symmetric within the tolerance
Asymmetric(M) == AnyAbsExceeds(Minus(M, Transpose(M)), SymTolFloor)

(* C1: calculate called with return_u_approx=True and return_u_best=False  *)
(* on a pair that is not diagonalizable returns normally, with u_approx    *)
(* None; it does not raise.                                                *)
C1_ApproxOnlyOnNonDiagonalizableReturns ==
    (Finished /\ Given.return_u_approx /\ ~Given.return_u_best
              /\ ~DiagonalizablePair)
        => (Result.kind = "return" /\ Result.u_approx = None)

(* C2: the constructor raises exactly when, after preprocessing, array_a   *)
(* or array_b has an entry of |M - M'| above 1e-10; it succeeds only when  *)
(* both arrays are symmetric within that tolerance.                        *)
C2_ConstructorRejectsAsymmetric ==
    (pc # "new")
        => ((pc = "failed")
                <=> (Asymmetric(Val(array_a)) \/ Asymmetric(Val(array_b))))

(* C3: with neither candidate requested calculate raises ValueError and    *)
(* returns no result tuple; with at least one requested and both arrays    *)
(* diagonalizable it does not raise.                                       *)
C3_ValueErrorIffNothingRequested ==
    Finished =>
        /\ (~Given.return_u_approx /\ ~Given.return_u_best)
              => Result = [kind |-> "ValueError"]
        /\ ((Given.return_u_approx \/ Given.return_u_best) /\ DiagonalizablePair)
              => Result.kind = "return"

\* C3's case: a call with neither candidate requested has raised
C3_Witness ==
    /\ Finished
    /\ ~Given.return_u_approx /\ ~Given.return_u_best
    /\ Result.kind = "ValueError"

\* the number of sign patterns of the running search
NTrials == Pow2(n)

\* the error of trial k of the running search, computed from the arrays
TrialError(k) ==
    double_sided_procrustes_error(Val(array_a), Val(array_b),
                                  trial_matrix(k), trial_matrix(k))

\* the k-th element, counted from 0, of {-1,+1}^m in lexicographic order
\* with -1 before +1: position j holds binary digit j of k, 0 as -1
SignPattern(k, m) ==
    Tuple([j \in 1..m |-> IF (k \div Pow2(m - j)) % 2 = 1 THEN 1 ELSE -1], m)

\* no trial of the running search has an error below tol
NoTrialBelowTol == \A k \in 0..(NTrials - 1) : TrialError(k) >= Given.tol

\* some trial of the running search has an error below the sentinel 1e5
SomeTrialBelowSentinel ==
    \E k \in 0..(NTrials - 1) : TrialError(k) < Sentinel * Sentinel

\* the first trial, in enumeration order, of least error
FirstMinimum ==
    CHOOSE k \in 0..(NTrials - 1) :
        /\ \A j \in 0..(NTrials - 1) : TrialError(k) <= TrialError(j)
        /\ \A j \in 0..(k - 1) : TrialError(j) > TrialError(k)

(* C4: when no trial has error < tol and some trial has error below the    *)
(* sentinel 1e5, the loop evaluates every one of the 2^n sign patterns     *)
(* exactly once, in the order of product((-1., 1.), repeat=n), and leaves  *)
(* with error_best the least error of all trials and u_best the first      *)
(* trial, in enumeration order, of that error.                             *)
C4_ExhaustiveSearchKeepsFirstMinimum ==
    (pc = "conj" /\ NoTrialBelowTol /\ SomeTrialBelowSentinel) =>
        /\ Len(trials) = NTrials
        /\ Len(diag_vec_list) = NTrials
        /\ \A j \in 1..NTrials :
              /\ trials[j].k = j - 1
              /\ trials[j].error = TrialError(j - 1)
              /\ diag_vec_list[j] = SignPattern(j - 1, n)
        /\ Val(error_best) = TrialError(FirstMinimum)
        /\ Val(u_best) = trial_matrix(FirstMinimum)

\* C4's case: an exhaustive search whose least error is not the first
\* trial's and is shared by a later trial with another matrix
C4_Witness ==
    /\ pc = "conj" /\ NoTrialBelowTol /\ SomeTrialBelowSentinel
    /\ FirstMinimum > 0
    /\ \E k \in (FirstMinimum + 1)..(NTrials - 1) :
          /\ TrialError(k) = TrialError(FirstMinimum)
          /\ trial_matrix(k) # trial_matrix(FirstMinimum)

(* C5: the loop stops at the first trial, in enumeration order, whose      *)
(* error is < tol: that trial becomes u_best with its error as error_best  *)
(* and no later pattern is evaluated; a trial of error >= tol, improving   *)
(* or not, never ends the loop early.  So the loop is left with            *)
(* error_best < tol or with all 2^n trials evaluated.                      *)
C5_StopsAtFirstTrialBelowTol ==
    /\ pc = "loop" =>
          /\ Len(trials) = i
          /\ i < NTrials
          /\ \A j \in 1..Len(trials) : trials[j].error >= Given.tol
    /\ pc = "conj" =>
          LET m == Len(trials)
          IN  /\ m >= 1 /\ m <= NTrials
              /\ \A j \in 1..m : trials[j].k = j - 1
              /\ \A j \in 1..(m - 1) : TrialError(j - 1) >= Given.tol
              /\ IF TrialError(m - 1) < Given.tol
                 THEN /\ Val(u_best) = trial_matrix(m - 1)
                      /\ Val(error_best) = TrialError(m - 1)
                 ELSE m = NTrials
              /\ (Val(error_best) < Given.tol \/ m = NTrials)

\* C5's case: the loop went on after a trial that improved on the sentinel
\* with an error >= tol, and stopped at a later trial below tol before the
\* patterns were exhausted
C5_Witness ==
    /\ pc = "conj"
    /\ Len(trials) >= 2 /\ Len(trials) < NTrials
    /\ trials[1].error < Sentinel * Sentinel
    /\ Val(error_best) < Given.tol

Min(a, b) == IF a <= b THEN a ELSE b

(* C6: when both candidates were requested and computed, the returned      *)
(* u_best and error_best are those of the candidate of lower error: the    *)
(* sign-search candidate when error_approx >= its error (so also on a      *)
(* tie), u_approx with error_approx otherwise; the returned error_best is  *)
(* the smaller of the two errors.                                          *)
C6_SelectorReturnsLowerError ==
    (Finished /\ return_u_approx /\ return_u_best) =>
        LET ea == Val(error_approx)
            es == Val(search).error
        IN  /\ Result.kind = "return"
            /\ Result.error_best = Some(Min(ea, es))
            /\ ea >= es => Result.u_best = Some(Val(search).u)
            /\ ea < es => Result.u_best = u_approx

\* C6's case: the two candidates are different matrices of equal error
C6_Witness ==
    /\ Finished /\ return_u_approx /\ return_u_best
    /\ Val(error_approx) = Val(search).error
    /\ Val(u_approx) # Val(search).u

(* C7: whenever calculate returns with the best candidate requested, the   *)
(* returned array_transformed_best is u_best' . array_a . u_best for the   *)
(* u_best of the same result tuple, also after the selector has run.       *)
C7_TransformedBestMatchesReturnedUBest ==
    (Finished /\ Result.kind = "return" /\ Given.return_u_best) =>
        Result.array_transformed_best =
            Some(Dot(Dot(Transpose(Val(Result.u_best)), Val(array_a)),
                     Val(Result.u_best)))

(* C8: on a pair that is not diagonalizable, calculate with                *)
(* return_u_best=True does not fail: whatever return_u_approx was, the     *)
(* approximation is skipped (u_approx, array_transformed_approx and        *)
(* error_approx are returned as None), the sign-search runs as usual, and  *)
(* the returned u_best and error_best are those the search ended with.     *)
C8_NonDiagonalizableRunsSearchOnly ==
    (Finished /\ Given.return_u_best /\ ~DiagonalizablePair) =>
        /\ Result.kind = "return"
        /\ Result.u_approx = None
        /\ Result.array_transformed_approx = None
        /\ Result.error_approx = None
        /\ search # None
        /\ Result.u_best = Some(Val(search).u)
        /\ Result.error_best = Some(Val(search).error)
        /\ Len(trials) >= 1
        /\ (Len(trials) = NTrials \/ trials[Len(trials)].error < Given.tol)

\* C8's case: both candidates were requested on a pair that is not
\* diagonalizable, and the search went through all patterns
C8_Witness ==
    /\ Finished /\ Given.return_u_best /\ Given.return_u_approx
    /\ ~DiagonalizablePair
    /\ Result.kind = "return"
    /\ Len(trials) = NTrials /\ NTrials > 1

IsRowPadded(y, x, rows) ==
    /\ Rows(y) = rows /\ Cols(y) = Cols(x) /\ rows >= Rows(x)
    /\ \A r \in 1..rows : Len(y[r]) = Cols(x)
    /\ \A r \in 1..rows, c \in 1..Cols(x) :
          y[r][c] = IF r <= Rows(x) THEN x[r][c] ELSE 0

\* y is x with all-zero columns appended up to `cols` columns
IsColumnPadded(y, x, cols) ==
    /\ Rows(y) = Rows(x) /\ Cols(y) = cols /\ cols >= Cols(x)
    /\ \A r \in 1..Rows(x) : Len(y[r]) = cols
    /\ \A r \in 1..Rows(x), c \in 1..cols :
          y[r][c] = IF c <= Cols(x) THEN x[r][c] ELSE 0

(* C10: zero_padding(x, y, row=True) returns arrays with an equal number   *)
(* of rows, and with column=True an equal number of columns: the array     *)
(* with fewer is extended with trailing all-zero rows (columns) up to the  *)
(* other's count, every original entry keeps its position and value, the   *)
(* larger array is returned as it was, nothing is cut off.  The Procrustes *)
(* constructor pads rows and not columns: a 2x2 A with a 1x2 B gives       *)
(* array_b = [[b00, b01], [0, 0]], a 2x3 A with a 2x1 B leaves array_b     *)
(* 2x1.  The caller's arrays are the arange arrays they were.              *)
C10_ZeroPaddingRowsAndColumns ==
    /\ (padded_arrays # None /\ Val(pad_args) = [row |-> TRUE, column |-> FALSE, square |-> FALSE]) =>
          LET rows == Max(Rows(array1), Rows(array2))
          IN  /\ IsRowPadded(Val(padded_arrays)[1], array1, rows)
              /\ IsRowPadded(Val(padded_arrays)[2], array2, rows)
              /\ Rows(array1) = rows => Val(padded_arrays)[1] = array1
              /\ Rows(array2) = rows => Val(padded_arrays)[2] = array2
    /\ (padded_arrays # None /\ Val(pad_args) = [row |-> FALSE, column |-> TRUE, square |-> FALSE]) =>
          LET cols == Max(Cols(array1), Cols(array2))
          IN  /\ IsColumnPadded(Val(padded_arrays)[1], array1, cols)
              /\ IsColumnPadded(Val(padded_arrays)[2], array2, cols)
              /\ Cols(array1) = cols => Val(padded_arrays)[1] = array1
              /\ Cols(array2) = cols => Val(padded_arrays)[2] = array2
    /\ procrust # None =>
          LET rows == Max(Rows(array1), Rows(array2))
          IN  /\ IsRowPadded(Val(procrust).array_a, array1, rows)
              /\ IsRowPadded(Val(procrust).array_b, array2, rows)
              /\ (Shape(array1) = <<2, 2>> /\ Shape(array2) = <<1, 2>>) =>
                    Val(procrust).array_b = <<array2[1], <<0, 0>>>>
              /\ (Shape(array1) = <<2, 3>> /\ Shape(array2) = <<2, 1>>) =>
                    Val(procrust).array_b = array2
    /\ (padded_arrays # None \/ procrust # None) =>
          \E start \in 0..MaxOffset :
              /\ array1 \in {Arange(start, r, c) : r \in PadDims, c \in PadDims}
              /\ array2 \in CallerArrays

\* C10's case: a 2x2 array and a 1x2 array have been row-padded by
\* zero_padding and by the constructor
C10_Witness ==
    /\ Shape(array1) = <<2, 2>> /\ Shape(array2) = <<1, 2>>
    /\ padded_arrays # None
    /\ Val(pad_args) = [row |-> TRUE, column |-> FALSE, square |-> FALSE]
    /\ Shape(Val(padded_arrays)[2]) = <<2, 2>>
    /\ procrust # None
    /\ Shape(Val(procrust).array_b) = <<2, 2>>

\* x and y have the same shape and the same entries
SameArray(x, y) ==
    /\ Len(x) = Len(y)
    /\ \A r \in 1..Len(x) : Len(x[r]) = Len(y[r])
    /\ \A r \in 1..Len(x) : \A c \in 1..Len(x[r]) : x[r][c] = y[r][c]

\* the finished zero_padding call had exactly these options
PaddedWith(row, column, square) ==
    /\ padded_arrays # None
    /\ Val(pad_args) = [row |-> row, column |-> column, square |-> square]

(* C11: zero_padding is idempotent: called with row=True on the pair a     *)
(* row=True call returned, or with column=True on the pair a column=True   *)
(* call returned, it gives arrays of the same shapes and entries as that   *)
(* pair.                                                                   *)
C11_ZeroPaddingIdempotent ==
    (repadded # None /\ (PaddedWith(TRUE, FALSE, FALSE) \/ PaddedWith(FALSE, TRUE, FALSE))) =>
        /\ SameArray(Val(repadded)[1], Val(padded_arrays)[1])
        /\ SameArray(Val(repadded)[2], Val(padded_arrays)[2])

\* C11's case: a row padding that extended one of the arrays has been
\* applied again to its result
C11_Witness ==
    /\ repadded # None /\ PaddedWith(TRUE, FALSE, FALSE)
    /\ Rows(array1) < Rows(array2)
    /\ Rows(Val(padded_arrays)[1]) = Rows(array2)
    /\ Rows(Val(repadded)[1]) = Rows(array2)

(* C12: zero_padding(x, y, square=True) returns two arrays of the same     *)
(* shape, each with as many rows as columns, whatever the shapes of x and  *)
(* y; two square arrays of equal size are returned with their entries.     *)
C12_ZeroPaddingSquare ==
    PaddedWith(FALSE, FALSE, TRUE) =>
        LET square_1 == Val(padded_arrays)[1]
            square_2 == Val(padded_arrays)[2]
        IN  /\ Shape(square_1) = Shape(square_2)
            /\ Rows(square_1) = Cols(square_1)
            /\ \A r \in 1..Rows(square_1) : Len(square_1[r]) = Cols(square_1)
            /\ \A r \in 1..Rows(square_2) : Len(square_2[r]) = Cols(square_2)
            /\ (Shape(array1) = Shape(array2) /\ Rows(array1) = Cols(array1)) =>
                  (SameArray(square_1, array1) /\ SameArray(square_2, array2))

\* C12's case: two arrays that are not square and differ in both counts
\* have been padded with square=True
C12_Witness ==
    /\ PaddedWith(FALSE, FALSE, TRUE)
    /\ Shape(array1) = <<1, 3>> /\ Shape(array2) = <<2, 1>>
    /\ Shape(Val(padded_arrays)[1]) = <<3, 3>>

\* x has a non-zero entry in its last row and one in its last column
NoTrailingZeros(x) == LastNonZeroRow(x) = Rows(x) /\ LastNonZeroCol(x) = Cols(x)

Residual(u) ==
    double_sided_procrustes_error(Val(array_a), Val(array_b), u, u)

\* every trial of the running search has an error >= 1e5 and >= tol
NoTrialBelowSentinel ==
    \A k \in 0..(NTrials - 1) :
        TrialError(k) >= Sentinel * Sentinel /\ TrialError(k) >= Given.tol

\* the sign-search of the running or last call has been left
SearchDone == search # None

\* what C14 is right about: U_A and the sentinel come out of the search,
\* after all trials, and are returned without a failure
SentinelFallback ==
    /\ Len(trials) = NTrials
    /\ Val(search).u = Val(u_a)
    /\ Val(search).error = Sentinel * Sentinel
    /\ Finished =>
          /\ Result.kind = "return"
          /\ ~return_u_approx =>
                (Result.u_best = u_a /\ Result.error_best = Some(Sentinel * Sentinel))

C15_NoneForCandidateNotComputed ==
    /\ (Finished /\ ~Given.return_u_approx /\ Given.return_u_best) =>
          /\ Result.kind = "return"
          /\ Result.u_approx = None
          /\ Result.array_transformed_approx = None
          /\ Result.error_approx = None
          /\ Result.u_best # None
    /\ (Finished /\ Given.return_u_approx /\ ~Given.return_u_best /\ DiagonalizablePair) =>
          /\ Result.kind = "return"
          /\ Result.u_best = None
          /\ Result.array_transformed_best = None
          /\ Result.error_best = None
          /\ Result.u_approx # None
          /\ trials = <<>> /\ search = None /\ diag_vec_list = <<>>
    /\ (args # None /\ Given.return_u_approx /\ ~Given.return_u_best
            /\ DiagonalizablePair) =>
          pc \notin {"svd", "loop", "conj"}

\* C15's case: the approximation alone was requested on a diagonalizable
\* pair of 2 x 2 arrays and has been returned
C15_Witness ==
    /\ Finished /\ Given.return_u_approx /\ ~Given.return_u_best
    /\ DiagonalizablePair
    /\ Rows(Val(array_a)) = 2
    /\ Result.kind = "return" /\ Result.u_approx # None /\ Result.u_best = None

\* the sign-search loop is running or has just been left
InSearch == pc \in {"loop", "conj"}

\* some evaluated trial has replaced the initial selection: the first one
\* with an error below tol or below the sentinel does
SelectionUpdated ==
    \E j \in 1..Len(trials) :
        trials[j].error < Given.tol \/ trials[j].error < Sentinel * Sentinel

\* (u_best, error_best) is the initial pair or the pair of an evaluated
\* trial, and no evaluated trial has a lower error once it has been updated
SelectionConsistent ==
    InSearch =>
        /\ \/ (u_best = u_a /\ Val(error_best) = Sentinel * Sentinel)
           \/ \E j \in 1..Len(trials) :
                 /\ Val(u_best) = trial_matrix(trials[j].k)
                 /\ Val(error_best) = trials[j].error
                 /\ trials[j].error = TrialError(trials[j].k)
        /\ SelectionUpdated =>
              \A j \in 1..Len(trials) : Val(error_best) <= trials[j].error

\* an iteration of the loop does not increase error_best
SelectionStep == (pc = "loop") => (Val(error_best') <= Val(error_best))

(* C16: throughout the sign-search loop error_best never increases from    *)
(* one iteration to the next, and after every iteration (u_best,           *)
(* error_best) is the initial pair (U_A, 1e5) or the (u_trial, error) pair *)
(* of one trial already evaluated, with error_best <= the error of every   *)
(* trial evaluated so far once it has been updated.                        *)
C16_SelectionStateMonotone ==
    [](SelectionConsistent) /\ [][SelectionStep]_vars

\* C16's case: the loop has been left after the selection was updated
\* twice, by the first trial and by a later, better one
C16_Witness ==
    /\ pc = "conj" /\ Len(trials) >= 3
    /\ trials[1].error < Sentinel * Sentinel
    /\ Val(error_best) < trials[1].error
    /\ \E j \in 2..Len(trials) : trials[j].error > Val(error_best)

==========================================================================
